---------------------------- MODULE Spec2Model ----------------------------
(***************************************************************************)
(* Model of chiller_plant_analyzer.py: one Streamlit script whose every    *)
(* run (an "evaluation pass") executes the sections chiller, pump, tower,  *)
(* IPLV, flow optimisation, COP-vs-load chart and CSV export top to        *)
(* bottom.  A Python ZeroDivisionError ends the run where it is raised.    *)
(*                                                                         *)
(* Numbers.  The script computes in Python floats.  The model computes in  *)
(* exact rationals (sign, numerator, denominator), the numerator and the   *)
(* denominator being arbitrary-precision naturals, so that every literal   *)
(* of the script (3.412, 62.4 * 1.3558, 32.174, 4.187, ...) is carried     *)
(* exactly.  IEEE-754 rounding error is therefore abstracted away: an      *)
(* equality of the model is an equality "within float tolerance" of the    *)
(* script.  Division by a zero denominator is not a value: it is the       *)
(* ZeroDivisionError outcome, as in Python.                                *)
(***************************************************************************)
EXTENDS Integers, Sequences, FiniteSets, TLC

(***************************************************************************)
(* Arbitrary-precision naturals: little-endian sequences of limbs in       *)
(* 0 .. Base-1 without a most-significant zero limb; << >> is zero.        *)
(***************************************************************************)
Base == 100 * 100

RECURSIVE NatNorm(_)
NatNorm(a) ==
    IF a = << >> THEN << >>
    ELSE IF a[Len(a)] = 0 THEN NatNorm(SubSeq(a, 1, Len(a) - 1))
    ELSE a

RECURSIVE NatFromInt(_)
NatFromInt(n) ==
    IF n = 0 THEN << >> ELSE <<n % Base>> \o NatFromInt(n \div Base)

RECURSIVE NatAddC(_, _, _)
NatAddC(a, b, c) ==
    IF a = << >> /\ b = << >> THEN (IF c = 0 THEN << >> ELSE <<c>>)
    ELSE LET x == IF a = << >> THEN 0 ELSE Head(a)
             y == IF b = << >> THEN 0 ELSE Head(b)
             s == x + y + c
         IN  <<s % Base>> \o NatAddC(IF a = << >> THEN << >> ELSE Tail(a),
                                     IF b = << >> THEN << >> ELSE Tail(b),
                                     s \div Base)

NatAdd(a, b) == NatAddC(a, b, 0)

\* -1, 0 or 1 as a < b, a = b, a > b.
RECURSIVE NatCmpFrom(_, _, _)
NatCmpFrom(a, b, i) ==
    IF i = 0 THEN 0
    ELSE IF a[i] < b[i] THEN -1
    ELSE IF a[i] > b[i] THEN 1
    ELSE NatCmpFrom(a, b, i - 1)

NatCmp(a, b) ==
    IF Len(a) < Len(b) THEN -1
    ELSE IF Len(a) > Len(b) THEN 1
    ELSE NatCmpFrom(a, b, Len(a))

\* a - b for a >= b.
RECURSIVE NatSubB(_, _, _)
NatSubB(a, b, borrow) ==
    IF a = << >> THEN << >>
    ELSE LET y == IF b = << >> THEN 0 ELSE Head(b)
             d == Head(a) - y - borrow
         IN  <<IF d < 0 THEN d + Base ELSE d>>
             \o NatSubB(Tail(a), IF b = << >> THEN << >> ELSE Tail(b),
                        IF d < 0 THEN 1 ELSE 0)

NatSub(a, b) == NatNorm(NatSubB(a, b, 0))

\* a * k for a limb-sized k (0 <= k < Base).
RECURSIVE NatMulSmallC(_, _, _)
NatMulSmallC(a, k, c) ==
    IF a = << >> THEN (IF c = 0 THEN << >> ELSE <<c>>)
    ELSE LET p == Head(a) * k + c
         IN  <<p % Base>> \o NatMulSmallC(Tail(a), k, p \div Base)

NatMulSmall(a, k) == IF k = 0 THEN << >> ELSE NatMulSmallC(a, k, 0)

NatShift(a) == IF a = << >> THEN << >> ELSE <<0>> \o a

RECURSIVE NatMul(_, _)
NatMul(a, b) ==
    IF a = << >> \/ b = << >> THEN << >>
    ELSE NatAdd(NatMulSmall(a, Head(b)), NatShift(NatMul(a, Tail(b))))

\* The largest limb q in lo .. hi with b * q <= r (b > 0, b * lo <= r).
RECURSIVE NatQuotDigit(_, _, _, _)
NatQuotDigit(r, b, lo, hi) ==
    IF lo = hi THEN lo
    ELSE LET mid == (lo + hi + 1) \div 2
         IN  IF NatCmp(NatMulSmall(b, mid), r) <= 0
             THEN NatQuotDigit(r, b, mid, hi)
             ELSE NatQuotDigit(r, b, lo, mid - 1)

\* Long division, most significant limb of a first: <<quotient, remainder>>.
RECURSIVE NatDivModFrom(_, _, _)
NatDivModFrom(a, b, i) ==
    IF i > Len(a) THEN << << >>, << >> >>
    ELSE LET hi  == NatDivModFrom(a, b, i + 1)
             r   == NatNorm(<<a[i]>> \o hi[2])
             q   == NatQuotDigit(r, b, 0, Base - 1)
         IN  << NatNorm(<<q>> \o hi[1]), NatSub(r, NatMulSmall(b, q)) >>

NatDivMod(a, b) == NatDivModFrom(a, b, 1)

NatIsEven(a) == a = << >> \/ Head(a) % 2 = 0

RECURSIVE NatPow10(_)
NatPow10(k) == IF k = 0 THEN <<1>> ELSE NatMulSmall(NatPow10(k - 1), 10)

(***************************************************************************)
(* Exact rationals: [neg, num, den] with den > 0 and neg = FALSE for zero. *)
(* Values are not reduced to lowest terms; they are compared with REq,     *)
(* RLt (cross-multiplication), never with =.                               *)
(***************************************************************************)
RMake(neg, num, den) == [neg |-> neg /\ num # << >>, num |-> num, den |-> den]

\* The integer n.
RInt(n) == RMake(n < 0, NatFromInt(IF n < 0 THEN -n ELSE n), <<1>>)

\* The decimal literal m * 10^-k, e.g. Dec(3412, 3) is 3.412.
Dec(m, k) == RMake(m < 0, NatFromInt(IF m < 0 THEN -m ELSE m), NatPow10(k))

RIsZero(x) == x.num = << >>

RNeg(x) == RMake(~x.neg, x.num, x.den)

RAdd(x, y) ==
    LET a == NatMul(x.num, y.den)
        b == NatMul(y.num, x.den)
        d == NatMul(x.den, y.den)
    IN  IF x.neg = y.neg THEN RMake(x.neg, NatAdd(a, b), d)
        ELSE IF NatCmp(a, b) >= 0 THEN RMake(x.neg, NatSub(a, b), d)
        ELSE RMake(y.neg, NatSub(b, a), d)

RSub(x, y) == RAdd(x, RNeg(y))

RMul(x, y) == RMake(x.neg # y.neg, NatMul(x.num, y.num), NatMul(x.den, y.den))

\* x / y for y # 0 (the caller raises ZeroDivisionError when y = 0).
RDiv(x, y) == RMake(x.neg # y.neg, NatMul(x.num, y.den), NatMul(x.den, y.num))

REq(x, y) ==
    /\ x.neg = y.neg
    /\ NatMul(x.num, y.den) = NatMul(y.num, x.den)

RLt(x, y) == LET d == RSub(x, y) IN d.neg

\* Python's round(x, nd): the nearest multiple of 10^-nd, ties to even.
\* (Python rounds the float's exact binary value, so on a decimal tie such
\* as 2.675 the float's representation error decides the direction; none of
\* the values rounded in the passes explored here lies on a tie.)
RRound(x, nd) ==
    LET scaled == NatMul(x.num, NatPow10(nd))
        qr     == NatDivMod(scaled, x.den)
        twice  == NatAdd(qr[2], qr[2])
        c      == NatCmp(twice, x.den)
        up     == c > 0 \/ (c = 0 /\ ~NatIsEven(qr[1]))
        q      == IF up THEN NatAdd(qr[1], <<1>>) ELSE qr[1]
    IN  RMake(x.neg, q, NatPow10(nd))

(***************************************************************************)
(* Bounds of the model.                                                    *)
(***************************************************************************)
\* Evaluation passes (script runs) explored; Rerun stops after the last.
MaxPasses == 2
\* The slider of line 68 is sampled at 4 + 12 * k / SliderSteps, k in 0 .. SliderSteps.
SliderSteps == 6

(***************************************************************************)
(* Widget values.  st.number_input returns whatever float the user typed   *)
(* (no min_value / max_value is set on lines 14-67), so zero and negative  *)
(* values are inputs the script can receive; st.slider of line 68 returns  *)
(* a float in [4.0, 16.0] only.  Each set holds the widget's default, the  *)
(* value that makes a denominator zero, and the values the specification's *)
(* examples use.                                                           *)
(***************************************************************************)
UnitSystems == {"SI", "I-P"}
CoolingCapacities == {RInt(0), RInt(100), RInt(300), RInt(-100)}
PowerInputs == {RInt(0), RInt(60)}
PumpInputs ==
    { [flow |-> Dec(2, 2), head |-> RInt(30), pump_power |-> RInt(6)],
      [flow |-> Dec(2, 2), head |-> RInt(30), pump_power |-> RInt(0)] }
TowerInputs ==
    { [cw_in |-> RInt(35), cw_out |-> RInt(30), wet_bulb |-> RInt(28)],
      [cw_in |-> RInt(30), cw_out |-> RInt(35), wet_bulb |-> RInt(28)],
      [cw_in |-> RInt(28), cw_out |-> RInt(30), wet_bulb |-> RInt(28)] }
PartLoadInputs ==
    { <<Dec(6, 1), Dec(65, 2), Dec(72, 2), Dec(85, 2)>>,
      <<Dec(85, 2), Dec(72, 2), Dec(65, 2), Dec(6, 1)>>,
      <<Dec(6, 1), RInt(0), Dec(72, 2), Dec(85, 2)>> }
CapacitiesKw == {RInt(1000)}
SliderMin == RInt(4)
SliderMax == RInt(16)
DeltaTs ==
    { RAdd(SliderMin, RDiv(RMul(RSub(SliderMax, SliderMin), RInt(k)), RInt(SliderSteps))) :
        k \in 0 .. SliderSteps }

(***************************************************************************)
(* State.                                                                  *)
(*   pc     the section the run is about to execute, "done" after the      *)
(*          last line, "failed" after an uncaught exception                *)
(*   ns     the script's namespace: the names assigned so far and their    *)
(*          values (a name not in DOMAIN ns is unassigned)                 *)
(*   page   the output elements rendered so far, in order (input widgets   *)
(*          are not recorded, only headers, messages, chart, download      *)
(*          button and the exception box)                                  *)
(*   csv    the data handed to the download button: << >> or               *)
(*          <<header row, data row>>                                       *)
(*   error  "none" or the exception that ended the run                     *)
(*   pass   the number of the current run                                  *)
(***************************************************************************)
VARIABLES pc, ns, page, csv, error, pass

vars == <<pc, ns, page, csv, error, pass>>

EmptyNs == [x \in {} |-> 0]

Assign(n, k, v) == [x \in DOMAIN n \cup {k} |-> IF x = k THEN v ELSE n[x]]

Assigned(k) == k \in DOMAIN ns

\* The outcome of a block of statements: the namespace it leaves, and whether
\* it ran to its end (ok) or raised ZeroDivisionError part-way.
Completed(n) == [ok |-> TRUE, ns |-> n]
Raised(n) == [ok |-> FALSE, ns |-> n]

Header(sec) == [section |-> sec, kind |-> "header", values |-> << >>]
Message(sec, kind, vals) == [section |-> sec, kind |-> kind, values |-> vals]
ExceptionBox(sec) == [section |-> sec, kind |-> "exception", values |-> << >>]

\* An uncaught exception ends the run: no later statement executes.
OutcomeSkipsFailure(r, nxt) == nxt
Outcome(r, nxt) == IF r.ok THEN nxt ELSE "failed"

\* What one section does to page, pc and error, given its outcome r and the
\* element it renders when it completes.
Render(sec, r, shown, nxt) ==
    /\ ns' = r.ns
    /\ pc' = Outcome(r, nxt)
    /\ IF r.ok
       THEN /\ page' = page \o <<Header(sec), shown>>
            /\ error' = error
       ELSE /\ page' = page \o <<Header(sec), ExceptionBox(sec)>>
            /\ error' = "ZeroDivisionError"

(***************************************************************************)
(* Lines 9-10: the unit system is read once, at the top of the run.        *)
(***************************************************************************)
Start ==
    /\ pc = "start"
    /\ \E u \in UnitSystems : ns' = Assign(EmptyNs, "unit_system", u)
    /\ page' = <<Header("title")>>
    /\ pc' = "chiller"
    /\ UNCHANGED <<csv, error, pass>>

(***************************************************************************)
(* Lines 12-26: chiller performance.                                       *)
(***************************************************************************)
ChillerCalcSwapped(n) ==
    IF n.unit_system = "I-P"
    THEN IF RIsZero(n.power_input) THEN Raised(n)
         ELSE LET n1 == Assign(n, "cop", RDiv(n.cooling_capacity, n.power_input))
                  n2 == Assign(n1, "eer", RMul(n1.cop, Dec(3412, 3)))
              IN  IF RIsZero(n2.cop) THEN Raised(n2)
                  ELSE Completed(Assign(n2, "kw_per_ton", RDiv(Dec(35, 1), n2.cop)))
    ELSE IF RIsZero(n.cooling_capacity) THEN Raised(n)
         ELSE LET n1 == Assign(n, "kw_per_ton", RDiv(n.power_input, n.cooling_capacity))
                  d  == RMul(n1.power_input, RInt(1000))
              IN  IF RIsZero(d) THEN Raised(n1)
                  ELSE LET n2 == Assign(n1, "eer",
                                        RDiv(RMul(n1.cooling_capacity, RInt(12000)), d))
                       IN  Completed(Assign(n2, "cop", RDiv(n2.eer, Dec(3412, 3))))

ChillerCalc(n) ==
    IF n.unit_system = "I-P"
    THEN IF RIsZero(n.cooling_capacity) THEN Raised(n)
         ELSE LET n1 == Assign(n, "kw_per_ton", RDiv(n.power_input, n.cooling_capacity))
                  d  == RMul(n1.power_input, RInt(1000))
              IN  IF RIsZero(d) THEN Raised(n1)
                  ELSE LET n2 == Assign(n1, "eer",
                                        RDiv(RMul(n1.cooling_capacity, RInt(12000)), d))
                       IN  Completed(Assign(n2, "cop", RDiv(n2.eer, Dec(3412, 3))))
    ELSE IF RIsZero(n.power_input) THEN Raised(n)
         ELSE LET n1 == Assign(n, "cop", RDiv(n.cooling_capacity, n.power_input))
                  n2 == Assign(n1, "eer", RMul(n1.cop, Dec(3412, 3)))
              IN  IF RIsZero(n2.cop) THEN Raised(n2)
                  ELSE Completed(Assign(n2, "kw_per_ton", RDiv(Dec(35, 1), n2.cop)))

ChillerShown(n) ==
    Message("chiller", "success",
            <<RRound(n.cop, 2), RRound(n.eer, 2), RRound(n.kw_per_ton, 2)>>)

Chiller ==
    /\ pc = "chiller"
    /\ \E cc \in CoolingCapacities, pi \in PowerInputs :
         LET n0 == Assign(Assign(ns, "cooling_capacity", cc), "power_input", pi)
             r  == ChillerCalc(n0)
         IN  Render("chiller", r, ChillerShown(r.ns), "pump")
    /\ UNCHANGED <<csv, pass>>


(***************************************************************************)
(* Lines 28-38: chilled water pump.                                        *)
(***************************************************************************)
DensityInverted(unit_system) ==
    IF unit_system = "I-P" THEN RInt(1000) ELSE RMul(Dec(624, 1), Dec(13558, 4))
Density(unit_system) ==
    IF unit_system = "SI" THEN RInt(1000) ELSE RMul(Dec(624, 1), Dec(13558, 4))

GravityAlwaysSI(unit_system) == Dec(981, 2)
Gravity(unit_system) ==
    IF unit_system = "SI" THEN Dec(981, 2) ELSE Dec(32174, 3)

PumpCalc(n) ==
    LET n1 == Assign(n, "density", Density(n.unit_system))
        n2 == Assign(n1, "g", Gravity(n1.unit_system))
        n3 == Assign(n2, "hydraulic_power",
                     RDiv(RMul(RMul(RMul(n2.flow, n2.head), n2.density), n2.g),
                          RInt(1000)))
    IN  IF RIsZero(n3.pump_power) THEN Raised(n3)
        ELSE Completed(Assign(n3, "efficiency",
                              RMul(RDiv(n3.hydraulic_power, n3.pump_power), RInt(100))))

PumpShown(n) == Message("pump", "success", <<RRound(n.efficiency, 2)>>)

Pump ==
    /\ pc = "pump"
    /\ \E in \in PumpInputs :
         LET n0 == Assign(Assign(Assign(ns, "flow", in.flow), "head", in.head),
                          "pump_power", in.pump_power)
             r  == PumpCalc(n0)
         IN  Render("pump", r, PumpShown(r.ns), "tower")
    /\ UNCHANGED <<csv, pass>>

(***************************************************************************)
(* Lines 40-49: cooling tower.                                             *)
(***************************************************************************)
TowerCalcGuarded(n) ==
    LET n1 == Assign(n, "range", RSub(n.cw_in, n.cw_out))
        n2 == Assign(n1, "approach", RSub(n1.cw_out, n1.wet_bulb))
        d  == RAdd(n2.range, n2.approach)
    IN  IF RIsZero(d) THEN Completed(Assign(n2, "effectiveness", RInt(0)))
        ELSE Completed(Assign(n2, "effectiveness", RDiv(n2.range, d)))

TowerCalcRejectsNegative(n) ==
    LET n1 == Assign(n, "range", RSub(n.cw_in, n.cw_out))
        n2 == Assign(n1, "approach", RSub(n1.cw_out, n1.wet_bulb))
        d  == RAdd(n2.range, n2.approach)
    IN  IF RIsZero(d) \/ n2.range.neg THEN Raised(n2)
        ELSE Completed(Assign(n2, "effectiveness", RDiv(n2.range, d)))

TowerCalc(n) ==
    LET n1 == Assign(n, "range", RSub(n.cw_in, n.cw_out))
        n2 == Assign(n1, "approach", RSub(n1.cw_out, n1.wet_bulb))
        d  == RAdd(n2.range, n2.approach)
    IN  IF RIsZero(d) THEN Raised(n2)
        ELSE Completed(Assign(n2, "effectiveness", RDiv(n2.range, d)))

TowerShown(n) ==
    Message("tower", "success",
            <<n.range, n.approach, RRound(RMul(n.effectiveness, RInt(100)), 2)>>)

Tower ==
    /\ pc = "tower"
    /\ \E in \in TowerInputs :
         LET n0 == Assign(Assign(Assign(ns, "cw_in", in.cw_in), "cw_out", in.cw_out),
                          "wet_bulb", in.wet_bulb)
             r  == TowerCalc(n0)
         IN  Render("tower", r, TowerShown(r.ns), "iplv")
    /\ UNCHANGED <<csv, pass>>

(***************************************************************************)
(* Lines 51-63: IPLV / NPLV.  calc_iplv zips the fixed weights with the    *)
(* values it is given, sums w / e left to right, and rounds the reciprocal *)
(* of the sum to 3 places; iteration raises at the first zero value.       *)
(***************************************************************************)
weights == <<Dec(1, 2), Dec(42, 2), Dec(45, 2), Dec(12, 2)>>

\* sum(w / e for w, e in zip(ws, values)) from index i on: [ok, sum].
RECURSIVE SumRatios(_, _, _, _)
SumRatios(ws, values, i, acc) ==
    IF i > Len(ws) \/ i > Len(values) THEN [ok |-> TRUE, sum |-> acc]
    ELSE IF RIsZero(values[i]) THEN [ok |-> FALSE, sum |-> acc]
    ELSE SumRatios(ws, values, i + 1, RAdd(acc, RDiv(ws[i], values[i])))

\* [ok, value]: the value calc_iplv returns, or ok = FALSE when it raises.
calc_iplv_by_load(values) ==
    LET s == SumRatios(<<weights[4], weights[3], weights[2], weights[1]>>,
                       values, 1, RInt(0))
    IN  IF ~s.ok \/ RIsZero(s.sum) THEN [ok |-> FALSE, value |-> RInt(0)]
        ELSE [ok |-> TRUE, value |-> RRound(RDiv(RInt(1), s.sum), 3)]

calc_iplv(values) ==
    LET s == SumRatios(weights, values, 1, RInt(0))
    IN  IF ~s.ok \/ RIsZero(s.sum) THEN [ok |-> FALSE, value |-> RInt(0)]
        ELSE [ok |-> TRUE, value |-> RRound(RDiv(RInt(1), s.sum), 3)]

IplvCalc(n) ==
    LET c == calc_iplv(<<n.kw_100, n.kw_75, n.kw_50, n.kw_25>>)
    IN  IF c.ok THEN Completed(Assign(n, "iplv", c.value)) ELSE Raised(n)

IplvShown(n) == Message("iplv", "success", <<n.iplv>>)

Iplv ==
    /\ pc = "iplv"
    /\ \E in \in PartLoadInputs :
         LET n0 == Assign(Assign(Assign(Assign(ns, "kw_100", in[1]), "kw_75", in[2]),
                                 "kw_50", in[3]), "kw_25", in[4])
             r  == IplvCalc(n0)
         IN  Render("iplv", r, IplvShown(r.ns), "flow")
    /\ UNCHANGED <<csv, pass>>

(***************************************************************************)
(* Lines 65-72: chilled water flow optimisation.  cp and density_si are    *)
(* set whatever the unit system is.                                        *)
(***************************************************************************)
FlowCalcUnitAware(n) ==
    LET n1 == Assign(n, "cp", Dec(4187, 3))
        n2 == Assign(n1, "density_si",
                     IF n1.unit_system = "SI" THEN RInt(997) ELSE Dec(624, 1))
        d  == RMul(RMul(n2.cp, n2.density_si), n2.delta_T)
    IN  IF RIsZero(d) THEN Raised(n2)
        ELSE Completed(Assign(n2, "flow_rate", RDiv(n2.capacity_kw, d)))

FlowCalc(n) ==
    LET n1 == Assign(n, "cp", Dec(4187, 3))
        n2 == Assign(n1, "density_si", RInt(997))
        d  == RMul(RMul(n2.cp, n2.density_si), n2.delta_T)
    IN  IF RIsZero(d) THEN Raised(n2)
        ELSE Completed(Assign(n2, "flow_rate", RDiv(n2.capacity_kw, d)))

FlowShown(n) == Message("flow", "info", <<RRound(n.flow_rate, 3)>>)

Flow ==
    /\ pc = "flow"
    /\ \E cap \in CapacitiesKw, dt \in DeltaTs :
         LET n0 == Assign(Assign(ns, "capacity_kw", cap), "delta_T", dt)
             r  == FlowCalc(n0)
         IN  Render("flow", r, FlowShown(r.ns), "curve")
    /\ UNCHANGED <<csv, pass>>

(***************************************************************************)
(* Lines 74-83: COP vs load chart.                                         *)
(***************************************************************************)
loads == <<25, 50, 75, 100>>

CopAtLoadSignFlipped(cop, l) ==
    RMul(cop, RAdd(RInt(1),
                   RMul(Dec(1, 1), RSub(RInt(1), RDiv(RInt(l), RInt(100))))))
CopAtLoad(cop, l) ==
    RMul(cop, RSub(RInt(1),
                   RMul(Dec(1, 1), RSub(RInt(1), RDiv(RInt(l), RInt(100))))))

CurveCalc(n) ==
    LET n1 == Assign(n, "loads", loads)
    IN  Completed(Assign(n1, "cop_values",
                         [i \in 1 .. Len(n1.loads) |-> CopAtLoad(n1.cop, n1.loads[i])]))

CurveShown(n) == Message("curve", "pyplot", n.cop_values)

Curve ==
    /\ pc = "curve"
    /\ LET r == CurveCalc(ns)
       IN  Render("curve", r, CurveShown(r.ns), "export")
    /\ UNCHANGED <<csv, pass>>

(***************************************************************************)
(* Lines 85-103: CSV export.  The dict of line 87 keeps insertion order;   *)
(* DataFrame.to_csv(index=False) writes its keys as the header row and its *)
(* one-element lists as the single data row.                               *)
(***************************************************************************)
ExportColumns ==
    << "Cooling Capacity", "Power Input", "COP", "EER", "kW/Ton",
       "Pump Efficiency (%)", "Tower Range", "Tower Approach",
       "Tower Effectiveness (%)", "IPLV/NPLV (kW/Ton)",
       "Chilled Water ΔT (°C)", "Flow Rate (m³/s)" >>

ExportRowRoundedFlow(n) ==
    << n.cooling_capacity, n.power_input, n.cop, n.eer, n.kw_per_ton,
       n.efficiency, n.range, n.approach, RMul(n.effectiveness, RInt(100)),
       n.iplv, n.delta_T, RRound(n.flow_rate, 3) >>

ExportRow(n) ==
    << n.cooling_capacity, n.power_input, n.cop, n.eer, n.kw_per_ton,
       n.efficiency, n.range, n.approach, RMul(n.effectiveness, RInt(100)),
       n.iplv, n.delta_T, n.flow_rate >>

Export ==
    /\ pc = "export"
    /\ csv' = <<ExportColumns, ExportRow(ns)>>
    /\ page' = page \o <<Header("export"),
                         Message("export", "download_button", << >>)>>
    /\ pc' = "done"
    /\ UNCHANGED <<ns, error, pass>>

(***************************************************************************)
(* Streamlit runs the script again, from line 1 and with a fresh           *)
(* namespace and page, whenever the user changes a widget.                 *)
(***************************************************************************)
Rerun ==
    /\ pc \in {"done", "failed"}
    /\ pass < MaxPasses
    /\ pass' = pass + 1
    /\ pc' = "start"
    /\ ns' = EmptyNs
    /\ page' = << >>
    /\ csv' = << >>
    /\ error' = "none"

Init ==
    /\ pc = "start"
    /\ ns = EmptyNs
    /\ page = << >>
    /\ csv = << >>
    /\ error = "none"
    /\ pass = 1

Next ==
    \/ Start
    \/ Chiller
    \/ Pump
    \/ Tower
    \/ Iplv
    \/ Flow
    \/ Curve
    \/ Export
    \/ Rerun

Spec == Init /\ [][Next]_vars

(***************************************************************************)
(* Vocabulary of the properties.                                           *)
(***************************************************************************)
IsResult(e) == e.kind \in {"success", "info", "pyplot", "download_button"}

\* Section sec's result element is on the page.
Shown(sec) == \E i \in 1 .. Len(page) : page[i].section = sec /\ IsResult(page[i])

ShownValues(sec) ==
    (CHOOSE e \in {page[i] : i \in 1 .. Len(page)} : e.section = sec /\ IsResult(e)).values

\* The run ended in section sec with ZeroDivisionError: nothing of sec is
\* displayed or exported, and none of the names in outs holds a value.
FailedIn(sec, outs) ==
    /\ pc = "failed"
    /\ error = "ZeroDivisionError"
    /\ page # << >>
    /\ page[Len(page)] = ExceptionBox(sec)
    /\ ~Shown(sec)
    /\ csv = << >>
    /\ outs \cap DOMAIN ns = {}

RPos(x) == ~x.neg /\ ~RIsZero(x)

(***************************************************************************)
(* C1.  A computation reached with a zero denominator raises               *)
(* ZeroDivisionError: the run fails in that section, the name the failing  *)
(* division would have assigned (and every later name of the section)      *)
(* holds no value, the section's result is not displayed and nothing is    *)
(* exported.  Denominators: power_input, cooling_capacity under I-P, cop   *)
(* under SI, pump_power, range + approach, each part-load value, delta_T.  *)
(***************************************************************************)
C1_ZeroDenominatorRaises ==
    /\ (Assigned("power_input") /\ ns.unit_system = "I-P"
          /\ RIsZero(ns.cooling_capacity))
         => FailedIn("chiller", {"kw_per_ton", "eer", "cop"})
    /\ (Assigned("power_input") /\ ns.unit_system = "I-P"
          /\ ~RIsZero(ns.cooling_capacity) /\ RIsZero(ns.power_input))
         => FailedIn("chiller", {"eer", "cop"})
    /\ (Assigned("power_input") /\ ns.unit_system = "SI" /\ RIsZero(ns.power_input))
         => FailedIn("chiller", {"cop", "eer", "kw_per_ton"})
    /\ (Assigned("power_input") /\ ns.unit_system = "SI"
          /\ ~RIsZero(ns.power_input) /\ RIsZero(ns.cooling_capacity))
         => FailedIn("chiller", {"kw_per_ton"})
    /\ (Assigned("pump_power") /\ RIsZero(ns.pump_power))
         => FailedIn("pump", {"efficiency"})
    /\ (Assigned("wet_bulb")
          /\ RIsZero(RAdd(RSub(ns.cw_in, ns.cw_out), RSub(ns.cw_out, ns.wet_bulb))))
         => FailedIn("tower", {"effectiveness"})
    /\ (Assigned("kw_25")
          /\ \E k \in {"kw_100", "kw_75", "kw_50", "kw_25"} : RIsZero(ns[k]))
         => FailedIn("iplv", {"iplv"})
    /\ (Assigned("delta_T") /\ RIsZero(ns.delta_T))
         => FailedIn("flow", {"flow_rate"})

\* The tower section was reached with range + approach = 0 after the chiller
\* and pump results were displayed.
C1_Witness ==
    /\ Assigned("wet_bulb")
    /\ REq(ns.cw_in, ns.wet_bulb)
    /\ pc = "failed"
    /\ Shown("chiller") /\ Shown("pump")

(***************************************************************************)
(* C2.  iplv is 1 / (0.01/kw_100 + 0.42/kw_75 + 0.45/kw_50 + 0.12/kw_25)   *)
(* rounded to 3 places, the weights taken by position.                     *)
(***************************************************************************)
IplvReference ==
    RRound(RDiv(RInt(1),
                RAdd(RAdd(RAdd(RDiv(Dec(1, 2), ns.kw_100), RDiv(Dec(42, 2), ns.kw_75)),
                          RDiv(Dec(45, 2), ns.kw_50)),
                     RDiv(Dec(12, 2), ns.kw_25))), 3)

IplvExampleInput ==
    /\ REq(ns.kw_100, Dec(6, 1)) /\ REq(ns.kw_75, Dec(65, 2))
    /\ REq(ns.kw_50, Dec(72, 2)) /\ REq(ns.kw_25, Dec(85, 2))

\* C2 as stated: ... and for [0.6, 0.65, 0.72, 0.85] the value is 0.702.
C2_Original ==
    Assigned("iplv") =>
        /\ REq(ns.iplv, IplvReference)
        /\ IplvExampleInput => REq(ns.iplv, Dec(702, 3))

\* C2 amended: ... and for [0.6, 0.65, 0.72, 0.85] the value is 0.7
\* (the unrounded quotient is 0.69979...).
C2_Amended ==
    Assigned("iplv") =>
        /\ REq(ns.iplv, IplvReference)
        /\ IplvExampleInput => REq(ns.iplv, Dec(700, 3))

C2_Witness == Assigned("iplv") /\ IplvExampleInput /\ Shown("iplv")

(***************************************************************************)
(* C3.  flow_rate is capacity_kw / (4.187 * 997 * delta_T) for every       *)
(* slider value and under either unit system.                              *)
(***************************************************************************)
FlowReference ==
    RDiv(ns.capacity_kw, RMul(RMul(Dec(4187, 3), RInt(997)), ns.delta_T))

FlowExampleInput == REq(ns.capacity_kw, RInt(1000)) /\ REq(ns.delta_T, RInt(6))

\* C3 as stated: ... for (1000, 6) the quotient is about 0.04005 (to 5
\* places) and 0.04 to 3 places.
C3_Original ==
    Assigned("flow_rate") =>
        /\ REq(ns.flow_rate, FlowReference)
        /\ FlowExampleInput =>
             /\ REq(RRound(ns.flow_rate, 5), Dec(4005, 5))
             /\ REq(RRound(ns.flow_rate, 3), Dec(4, 2))

\* C3 amended: ... for (1000, 6) the quotient is about 0.03993 (to 5 places)
\* and 0.04 to 3 places.
C3_Amended ==
    Assigned("flow_rate") =>
        /\ REq(ns.flow_rate, FlowReference)
        /\ ~RLt(ns.delta_T, SliderMin) /\ ~RLt(SliderMax, ns.delta_T)
        /\ FlowExampleInput =>
             /\ REq(RRound(ns.flow_rate, 5), Dec(3993, 5))
             /\ REq(RRound(ns.flow_rate, 3), Dec(4, 2))
             /\ REq(ShownValues("flow")[1], Dec(4, 2))

C3_Witness ==
    Assigned("flow_rate") /\ FlowExampleInput /\ ns.unit_system = "I-P" /\ Shown("flow")

(***************************************************************************)
(* C4.  For cooling_capacity > 0 and power_input > 0 the chiller metrics   *)
(* are, under I-P, eer = capacity * 12000 / (power * 1000), cop = eer /    *)
(* 3.412, kw_per_ton = power / capacity; under SI, cop = capacity / power, *)
(* eer = cop * 3.412, kw_per_ton = 3.5 / cop (0.7 when cop = 5).           *)
(***************************************************************************)
C4_ChillerFormulas ==
    (Assigned("power_input") /\ RPos(ns.cooling_capacity) /\ RPos(ns.power_input)) =>
        /\ {"cop", "eer", "kw_per_ton"} \subseteq DOMAIN ns
        /\ ns.unit_system = "I-P" =>
             /\ REq(ns.eer, RDiv(RMul(ns.cooling_capacity, RInt(12000)),
                                 RMul(ns.power_input, RInt(1000))))
             /\ REq(ns.cop, RDiv(ns.eer, Dec(3412, 3)))
             /\ REq(ns.kw_per_ton, RDiv(ns.power_input, ns.cooling_capacity))
        /\ ns.unit_system = "SI" =>
             /\ REq(ns.cop, RDiv(ns.cooling_capacity, ns.power_input))
             /\ REq(ns.eer, RMul(ns.cop, Dec(3412, 3)))
             /\ REq(ns.kw_per_ton, RDiv(Dec(35, 1), ns.cop))
             /\ REq(ns.cop, RInt(5)) => REq(ns.kw_per_ton, Dec(7, 1))

C4_Witness ==
    /\ Assigned("kw_per_ton") /\ ns.unit_system = "SI"
    /\ REq(ns.cop, RInt(5)) /\ REq(ns.kw_per_ton, Dec(7, 1))
    /\ Shown("chiller")

(***************************************************************************)
(* C5.  Whenever cw_in # wet_bulb the tower section completes (a negative  *)
(* range is not rejected) with range = cw_in - cw_out, approach = cw_out - *)
(* wet_bulb and effectiveness percent = range / (range + approach) * 100,  *)
(* which is what is exported; (35, 30, 28) gives 5, 2 and 500/7, shown as  *)
(* 71.43.                                                                  *)
(***************************************************************************)
TowerPercentReference ==
    RMul(RDiv(RSub(ns.cw_in, ns.cw_out),
              RAdd(RSub(ns.cw_in, ns.cw_out), RSub(ns.cw_out, ns.wet_bulb))),
         RInt(100))

TowerExampleInput ==
    REq(ns.cw_in, RInt(35)) /\ REq(ns.cw_out, RInt(30)) /\ REq(ns.wet_bulb, RInt(28))

PumpDensityReference ==
    IF ns.unit_system = "I-P" THEN RMul(Dec(624, 1), Dec(13558, 4)) ELSE RInt(1000)

PumpGravityReference ==
    IF ns.unit_system = "I-P" THEN Dec(32174, 3) ELSE Dec(981, 2)

PumpExampleInput ==
    /\ REq(ns.flow, Dec(2, 2)) /\ REq(ns.head, RInt(30)) /\ REq(ns.pump_power, RInt(6))
    /\ ns.unit_system = "SI"

C6_PumpFormulas ==
    (Assigned("pump_power") /\ ~RIsZero(ns.pump_power)) =>
        /\ {"hydraulic_power", "efficiency"} \subseteq DOMAIN ns
        /\ REq(ns.hydraulic_power,
               RDiv(RMul(RMul(RMul(ns.flow, ns.head), PumpDensityReference),
                         PumpGravityReference), RInt(1000)))
        /\ REq(ns.efficiency, RMul(RDiv(ns.hydraulic_power, ns.pump_power), RInt(100)))
        /\ PumpExampleInput =>
             /\ REq(ns.hydraulic_power, Dec(5886, 3))
             /\ REq(ns.efficiency, Dec(981, 1))

C6_Witness ==
    /\ Assigned("efficiency") /\ PumpExampleInput
    /\ REq(ns.efficiency, Dec(981, 1)) /\ Shown("pump")


(***************************************************************************)
(* C7.  The chart's values are cop * (1 - 0.1 * (1 - load/100)) at the     *)
(* loads 25, 50, 75, 100 in that order; for cop > 0 they increase strictly *)
(* with the load, and the value at load 100 is cop itself (for cop = 5:    *)
(* 4.625, 4.75, 4.875, 5).                                                 *)
(***************************************************************************)
CurveReference(l) ==
    RMul(ns.cop, RSub(RInt(1), RMul(Dec(1, 1), RSub(RInt(1), RDiv(RInt(l), RInt(100))))))

C7_CopCurve ==
    Assigned("cop_values") =>
        /\ ns.loads = <<25, 50, 75, 100>>
        /\ Len(ns.cop_values) = 4
        /\ \A i \in 1 .. 4 : REq(ns.cop_values[i], CurveReference(ns.loads[i]))
        /\ REq(ns.cop_values[4], ns.cop)
        /\ RPos(ns.cop) => \A i \in 1 .. 3 : RLt(ns.cop_values[i], ns.cop_values[i + 1])
        /\ REq(ns.cop, RInt(5)) =>
             /\ REq(ns.cop_values[1], Dec(4625, 3))
             /\ REq(ns.cop_values[2], Dec(475, 2))
             /\ REq(ns.cop_values[3], Dec(4875, 3))
        /\ Shown("curve") /\ ShownValues("curve") = ns.cop_values

C7_Witness ==
    /\ Assigned("cop_values") /\ REq(ns.cop, RInt(5))
    /\ RLt(ns.cop_values[1], ns.cop_values[4])

(***************************************************************************)
(* C8.  The export is one header row and one data row of the twelve        *)
(* columns in the stated order.                                            *)
(***************************************************************************)
ExportShape ==
    /\ Len(csv) = 2
    /\ csv[1] = << "Cooling Capacity", "Power Input", "COP", "EER", "kW/Ton",
                   "Pump Efficiency (%)", "Tower Range", "Tower Approach",
                   "Tower Effectiveness (%)", "IPLV/NPLV (kW/Ton)",
                   "Chilled Water ΔT (°C)", "Flow Rate (m³/s)" >>
    /\ Len(csv[2]) = 12

\* Columns 1-9 and 11 hold the unrounded values, column 10 the IPLV rounded
\* to 3 places.
ExportValues ==
    /\ REq(csv[2][1], ns.cooling_capacity)
    /\ REq(csv[2][2], ns.power_input)
    /\ REq(csv[2][3], ns.cop)
    /\ REq(csv[2][4], ns.eer)
    /\ REq(csv[2][5], ns.kw_per_ton)
    /\ REq(csv[2][6], ns.efficiency)
    /\ REq(csv[2][7], ns.range)
    /\ REq(csv[2][8], ns.approach)
    /\ REq(csv[2][9], TowerPercentReference)
    /\ REq(csv[2][10], IplvReference)
    /\ REq(csv[2][11], ns.delta_T)

ChillerTookIP ==
    REq(ns.eer, RDiv(RMul(ns.cooling_capacity, RInt(12000)),
                     RMul(ns.power_input, RInt(1000))))

ChillerTookSI ==
    REq(ns.eer, RMul(RDiv(ns.cooling_capacity, ns.power_input), Dec(3412, 3)))

PumpUsesIP ==
    REq(ns.density, RMul(Dec(624, 1), Dec(13558, 4))) /\ REq(ns.g, Dec(32174, 3))

PumpUsesSI == REq(ns.density, RInt(1000)) /\ REq(ns.g, Dec(981, 2))

C9_UnitSystemConsistent ==
    (Assigned("density") /\ Assigned("g")) =>
        /\ ChillerTookIP # ChillerTookSI
        /\ ChillerTookIP <=> PumpUsesIP
        /\ ChillerTookSI <=> PumpUsesSI
        /\ ChillerTookIP <=> ns.unit_system = "I-P"

C9_Witness ==
    /\ Assigned("density") /\ Assigned("g")
    /\ ChillerTookIP /\ PumpUsesIP
    /\ Assigned("efficiency")

(***************************************************************************)
(* C10.  A pass runs chiller, pump, tower, IPLV, flow rate, COP curve,     *)
(* export in that order; the first failing section ends it (its exception  *)
(* is the last thing on the page, the results before it stay displayed, no *)
(* later section evaluates or displays anything); an export exists only    *)
(* when all six computations completed.                                    *)
(***************************************************************************)
SectionOrder == <<"chiller", "pump", "tower", "iplv", "flow", "curve", "export">>

\* The first name each section assigns.
FirstName ==
    [chiller |-> "cooling_capacity", pump |-> "flow", tower |-> "cw_in",
     iplv |-> "kw_100", flow |-> "capacity_kw", curve |-> "loads"]

\* The page's elements other than headers, as the sections they belong to.
Outputs == SelectSeq(page, LAMBDA e : e.kind # "header")

Headers == SelectSeq(page, LAMBDA e : e.kind = "header" /\ e.section # "title")

C10_SectionOrder ==
    /\ Len(Outputs) <= Len(SectionOrder)
    /\ \A i \in 1 .. Len(Outputs) : Outputs[i].section = SectionOrder[i]
    /\ Len(Headers) = Len(Outputs)
    /\ \A i \in 1 .. Len(Headers) : Headers[i].section = SectionOrder[i]
    /\ \A i \in 1 .. Len(Outputs) :
         Outputs[i].kind = "exception" => (i = Len(Outputs) /\ pc = "failed")
    /\ \A i \in 1 .. 6 :
         Assigned(FirstName[SectionOrder[i]]) <=> i <= Len(Outputs)
    /\ pc = "failed" =>
         /\ Outputs # << >>
         /\ Outputs[Len(Outputs)].kind = "exception"
         /\ error = "ZeroDivisionError"
    /\ pc # "failed" => error = "none"
    /\ pc \in {"chiller", "pump", "tower", "iplv", "flow", "curve", "export"} =>
         /\ Len(Outputs) < Len(SectionOrder)
         /\ pc = SectionOrder[Len(Outputs) + 1]
    /\ csv # << >> <=> pc = "done"
    /\ csv # << >> =>
         /\ error = "none"
         /\ \A i \in 1 .. 7 : Shown(SectionOrder[i])

\* The tower section failed after chiller and pump displayed their results.
C10_Witness ==
    /\ pc = "failed"
    /\ Len(Outputs) = 3
    /\ Outputs[1].kind = "success" /\ Outputs[2].kind = "success"
    /\ Outputs[3] = ExceptionBox("tower")
    /\ ~Assigned("kw_100")

=============================================================================
